---- MODULE Spec2Model ----
(***************************************************************************)
(* State-machine model of yalesmartalarmclient: the YaleAuth session       *)
(* (auth.py) with its token handling, its authenticated GET / POST with    *)
(* the 401/403 handler, and the services discovery that relocates the base *)
(* host; the lock object with its status decoder and its configuration     *)
(* string (lock.py); the commands of the client and of the lock API        *)
(* (client.py, lock.py); the getters of the client with their retries and  *)
(* the lookup of a lock by name (client.py, lock.py).                      *)
(*                                                                         *)
(* Spec is the session used by one caller, SpecLock the lock object on its *)
(* own, SpecCommand the commands on top of the session, SpecState the lock *)
(* under everything that sets its state, SpecGetter the getters on top of  *)
(* the session, SpecShared the session used by two callers.                *)
(*                                                                         *)
(* The Python call stack is explicit (stack, top = last element).  One     *)
(* step is one HTTP exchange together with the code that follows it up to  *)
(* the next call or return, or the resumption of a caller after its callee *)
(* returned, or the passage of an exception through one frame.  The server *)
(* is the environment: every answer it can give is an input drawn with \E. *)
(*                                                                         *)
(* Strings the code slices (the base host, URLs) are sequences of          *)
(* characters; opaque strings (tokens, endpoints) are TLA+ strings.        *)
(***************************************************************************)
EXTENDS Integers, Sequences, FiniteSets, TLC

\* Python's None for string-valued fields.
None == "None"

---------------------------------------------------------------------------
(* Bounds of the model.                                                    *)

\* How many 401/403 handlers the server may have open at once in one call
\* (the code itself sets no limit: Python's recursion limit ends it).
MaxRetryDepth == 2

---------------------------------------------------------------------------
(* Constants of the program.                                               *)

\* The names auth.py imports from const.py.  HOST ends in the five characters
\* ("/yapi") that post_authenticated cuts off for the panic endpoint.
HOST == <<"H", "/", "y", "a", "p", "i">>
ENDPOINT_TOKEN == "/o/token/"
ENDPOINT_SERVICES == "/services/"
YALE_AUTH_TOKEN == "YALE_AUTH_TOKEN"
YALE_AUTHENTICATION_REFRESH_TOKEN == "refresh_token"
YALE_AUTHENTICATION_ACCESS_TOKEN == "access_token"

_ENDPOINT_DEVICES_STATUS == "/api/panel/device_status/"
_ENDPOINT_SET_MODE == "/api/panel/mode/"
_ENDPOINT_PANIC_BUTTON == "/api/panel/panic"

GetEndpoints == {_ENDPOINT_DEVICES_STATUS}
PostEndpoints == {_ENDPOINT_SET_MODE, _ENDPOINT_PANIC_BUTTON}

\* "panic" in endpoint
HasPanic(endpoint) == endpoint = _ENDPOINT_PANIC_BUTTON

---------------------------------------------------------------------------
(* Inputs: credentials and what the server can answer.                     *)

Usernames == {"alice"}
Passwords == {"pw"}

\* Token values a token response can carry.
AccessTokens == {"a1", "a2"}
RefreshTokens == {"r1"}

\* Relocation URLs a services response can carry under "yapi".
YapiUrls == { <<>>, <<"/">>, <<"N">>, <<"N", "/">>, <<"N", "/", "/">> }

\* HTTP status codes of a response.
Statuses == {200, 401, 403, 500}

\* What requests.get / requests.post can raise instead of answering.
RaisedClasses ==
    {"ConnectionError", "ConnectTimeout", "ReadTimeout", "RequestException", "Exception"}

\* The value under "data": the four fields of the panel status the code
\* reads, the list of device records, or a dict of strings (a name to a
\* state); each is empty where the value is of another kind.
PanelStatus(acfail, battery, tamper, jam) ==
    [acfail |-> acfail, battery |-> battery, tamper |-> tamper, jam |-> jam]

Data(panel, devices, dict) == [panel |-> panel, devices |-> devices, dict |-> dict]

NoDict == [name \in {} |-> ""]

NoData == Data(PanelStatus("", "", "", ""), <<>>, NoDict)

\* A parsed JSON object: the keys it has and the values of the keys the code
\* reads.  A key not in keys has the placeholder value.
Json(keys, code, yapi, at, rt) ==
    [keys |-> keys, code |-> code, yapi |-> yapi,
     access_token |-> at, refresh_token |-> rt, data |-> NoData]

NullJson == Json({}, "", <<>>, "", "")

\* dict.get(key) for the string-valued keys: None when the key is missing.
DictGet(data, key) ==
    IF key \in data.keys
    THEN (IF key = "access_token" THEN data.access_token
          ELSE IF key = "refresh_token" THEN data.refresh_token
          ELSE data.code)
    ELSE None

\* Bodies of the data and command endpoints.
DataBodies == { Json({"code"}, "000", <<>>, "", ""), Json({"code"}, "001", <<>>, "", "") }

\* Bodies of the services endpoint.
ServicesBodies ==
    { Json({}, "", <<>>, "", "") } \cup { Json({"yapi"}, "", u, "", "") : u \in YapiUrls }

\* Bodies of the token endpoint: both tokens, one of them, or none.
TokenBodies ==
    { Json({"access_token", "refresh_token"}, "", <<>>, a, r) :
          a \in AccessTokens, r \in RefreshTokens }
    \cup { Json({"access_token"}, "", <<>>, a, "") : a \in AccessTokens }
    \cup { Json({"refresh_token"}, "", <<>>, "", r) : r \in RefreshTokens }
    \cup { Json({"error"}, "", <<>>, "", "") }

BodiesOf(endpoint) ==
    IF endpoint = ENDPOINT_SERVICES THEN ServicesBodies
    ELSE IF endpoint = ENDPOINT_TOKEN THEN TokenBodies
    ELSE DataBodies

---------------------------------------------------------------------------
(* The state.                                                              *)

VARIABLES
    session,        \* "none", "constructing" or "ready": whether YaleAuth(...) gave an object
    host,           \* self._host
    username,       \* self.username
    password,       \* self.password
    refresh_token,  \* self.refresh_token
    access_token,   \* self.access_token
    stack,          \* the call stack, innermost frame last
    sig,            \* what the innermost frame is handed: nothing, a return value, an exception
    lastReq,        \* the last HTTP request sent in the current call
    call,           \* what the current top-level call has done so far
    lock,           \* the YaleLock object the caller holds (lock.py)
    cmd,            \* what the current command of the client or lock API has done so far
    other           \* a second caller of the same session, while it is not running

\* What the session functions of auth.py never touch.
aux == <<lock, cmd, other>>

vars == <<session, host, username, password, refresh_token, access_token,
          stack, sig, lastReq, call, lock, cmd, other>>

\* A frame of the call stack: the function, its endpoint argument, its position.
Frame(fn, ep, pc) == [fn |-> fn, ep |-> ep, pc |-> pc]

Top == stack[Len(stack)]
Pop == SubSeq(stack, 1, Len(stack) - 1)

NoSig == [k |-> "none", v |-> NullJson, e |-> None]
Ret(v) == [k |-> "ret", v |-> v, e |-> None]
Exc(e) == [k |-> "exc", v |-> NullJson, e |-> e]

\* An HTTP request as sent: lastReq is one of these.
Request(method, url, auth, payload) ==
    [method |-> method, url |-> url, auth |-> auth, payload |-> payload]

NoPayload == [grant_type |-> None, refresh_token |-> None,
              username |-> None, password |-> None]
NoReq == Request("none", <<>>, <<"", "">>, NoPayload)

\* What the server does with a request: it raises inside requests (raised is
\* the class) or answers with a status and a JSON body.
Answer(status, body) == [raised |-> None, status |-> status, body |-> body]
Failure(cls) == [raised |-> cls, status |-> 0, body |-> NullJson]
NoAnswer == [raised |-> None, status |-> 0, body |-> NullJson]

Outcomes(endpoint) ==
    { Answer(200, b) : b \in BodiesOf(endpoint) }
    \cup { Answer(s, NullJson) : s \in Statuses \ {200} }
    \cup { Failure(c) : c \in RaisedClasses }

\* The bookkeeping of a top-level call (a constructor, a GET or a POST).
NewCall(op, ep, tokens, base) ==
    [op |-> op, ep |-> ep,
     nTok |-> 0,            \* token requests sent
     nSend |-> 0,           \* requests sent to the call's own endpoint
     nSvc |-> 0,            \* requests sent to the services endpoint
     first |-> NoAnswer,    \* the first answer to the call's own request
     answers |-> <<>>,      \* the classes of all answers to the call's own request
     lastOk |-> NullJson,   \* the body of the last 200 answer to the call's own request
     svcAuth |-> FALSE,     \* a services request was answered 401/403
     held |-> None,         \* the refresh token held when the last 401/403 arrived
     lastTok |-> NoAnswer,  \* the last answer of the token endpoint
     lastSvc |-> NullJson,  \* the body of the last 200 answer of the services endpoint
     tokens0 |-> tokens,    \* <<access token, refresh token>> the call started with
     host0 |-> base]        \* the base host the call started with

---------------------------------------------------------------------------
(* Python and requests semantics the handlers rest on.                     *)

\* The truth value of an Optional[str].
Truthy(s) == s # None /\ s # ""

\* response.raise_for_status() raises HTTPError for 4xx and 5xx.
RaisesForStatus(status) == status >= 400 /\ status < 600

\* The classes an exception is an instance of.  In requests.exceptions,
\* ConnectTimeout derives from both ConnectionError and Timeout, ReadTimeout
\* from Timeout alone, and all of them from RequestException.
InstanceOf(cls) ==
    CASE cls = "HTTPError" -> {"HTTPError", "RequestException", "Exception"}
      [] cls = "ConnectionError" -> {"ConnectionError", "RequestException", "Exception"}
      [] cls = "ConnectTimeout" ->
            {"ConnectTimeout", "ConnectionError", "Timeout", "RequestException", "Exception"}
      [] cls = "ReadTimeout" -> {"ReadTimeout", "Timeout", "RequestException", "Exception"}
      [] cls = "RequestException" -> {"RequestException", "Exception"}
      [] OTHER -> {"Exception"}

\* The except clauses of the three request functions, in their order.
ExceptClauses == <<"HTTPError", "ConnectionError", "Timeout", "RequestException", "Exception">>

\* The first except clause that catches an exception of class cls.
CatchingClause(cls) ==
    LET hits == { i \in 1..Len(ExceptClauses) : ExceptClauses[i] \in InstanceOf(cls) }
    IN ExceptClauses[CHOOSE i \in hits : \A j \in hits : i <= j]

\* The class raised inside the try block for outcome o (None: nothing raised).
RaisedIn(o) ==
    IF o.raised # None THEN o.raised
    ELSE IF RaisesForStatus(o.status) THEN "HTTPError"
    ELSE None

\* Mutants of IsAuthStatus: 403 forgotten; 500 taken for an authentication failure.
IsAuthStatus_only401(status) == status = 401
IsAuthStatus_with500(status) == status \in {401, 403, 500}

\* response.status_code in [401, 403]
IsAuthStatus(status) == status \in {401, 403}

\* s[:-n]
DropLast(s, n) == SubSeq(s, 1, IF Len(s) > n THEN Len(s) - n ELSE 0)

\* The number of 401/403 handlers open on the stack.
HandlerDepth(stk) ==
    Cardinality({ i \in 1..Len(stk) : stk[i].pc \in {"reauth", "retry"} })

\* The class of an answer, as the bookkeeping records it.
AnswerClass(o) ==
    IF o.raised # None THEN "raise"
    ELSE IF o.status = 200 THEN "ok"
    ELSE IF o.status \in {401, 403} THEN "auth"
    ELSE "http"

\* The bookkeeping after a request to endpoint was answered by o.
Observe(endpoint, o) ==
    LET own == endpoint = call.ep
        cls == AnswerClass(o)
    IN [call EXCEPT
          !.nTok = IF endpoint = ENDPOINT_TOKEN THEN @ + 1 ELSE @,
          !.nSend = IF own THEN @ + 1 ELSE @,
          !.nSvc = IF endpoint = ENDPOINT_SERVICES THEN @ + 1 ELSE @,
          !.first = IF own /\ call.nSend = 0 THEN o ELSE @,
          !.answers = IF own THEN Append(@, cls) ELSE @,
          !.lastOk = IF own /\ cls = "ok" THEN o.body ELSE @,
          !.svcAuth = @ \/ (endpoint = ENDPOINT_SERVICES /\ cls = "auth"),
          !.held = IF endpoint # ENDPOINT_TOKEN /\ cls = "auth" THEN refresh_token ELSE @,
          !.lastTok = IF endpoint = ENDPOINT_TOKEN THEN o ELSE @,
          !.lastSvc = IF endpoint = ENDPOINT_SERVICES /\ cls = "ok" THEN o.body ELSE @]

---------------------------------------------------------------------------
(* YaleAuth (auth.py).                                                     *)

\* Mutant of auth_headers: the header carries the refresh token.
auth_headers_refresh ==
    IF Truthy(refresh_token) THEN <<"Bearer", refresh_token>> ELSE <<"Bearer", "">>

\* Mutant of auth_headers: the header never carries a token.
auth_headers_empty == <<"Bearer", "">>

\* The Authorization header of a data request.
auth_headers ==
    IF Truthy(access_token) THEN <<"Bearer", access_token>> ELSE <<"Bearer", "">>

\* What the except clauses other than the 401/403 branch raise.
Reraised(clause) ==
    CASE clause = "HTTPError" -> "ConnectionError"
      [] clause = "ConnectionError" -> "ConnectionError"
      [] clause = "Timeout" -> "TimeoutError"
      [] OTHER -> "UnknownError"

\* The frame in the handler calls callee (pc: where the frame resumes).
CallFrom(pc, callee) == Append([stack EXCEPT ![Len(stack)].pc = pc], callee)

\* What post_authenticated returns for the panic endpoint.
PanicJson == [NullJson EXCEPT !.keys = {"panic"}]

\* get_authenticated: the request, answered by o, and what the function
\* does with the answer up to its return, its raise or its call of _authorize.
get_authenticated(o) ==
    LET endpoint == Top.ep
        url == host \o <<endpoint>>
        cls == RaisedIn(o)
        clause == CatchingClause(cls)
    IN /\ lastReq' = Request("GET", url, auth_headers, NoPayload)
       /\ call' = Observe(endpoint, o)
       /\ IF cls = None
          THEN /\ stack' = Pop
               /\ sig' = Ret(o.body)
               /\ UNCHANGED <<refresh_token, access_token>>
          ELSE IF clause = "HTTPError" /\ IsAuthStatus(o.status)
          THEN /\ refresh_token' = None
               /\ access_token' = None
               /\ stack' = CallFrom("reauth", Frame("_authorize", None, "send"))
               /\ sig' = NoSig
          ELSE /\ stack' = Pop
               /\ sig' = Exc(Reraised(clause))
               /\ UNCHANGED <<refresh_token, access_token>>
       /\ UNCHANGED <<session, host, username, password>>

\* get_authenticated, inside its HTTPError handler, after _authorize returned
\* (it calls itself) and after that call returned (it raises).
get_authenticated_handler ==
    /\ IF Top.pc = "reauth"
       THEN /\ stack' = CallFrom("retry", Frame("get_authenticated", Top.ep, "send"))
            /\ sig' = NoSig
       ELSE /\ stack' = Pop
            /\ sig' = Exc("ConnectionError")
    /\ UNCHANGED <<session, host, username, password, refresh_token, access_token,
                   lastReq, call>>

\* post_authenticated: as get_authenticated, with the panic endpoint's URL
\* and return value.
post_authenticated(o) ==
    LET endpoint == Top.ep
        url == IF HasPanic(endpoint) THEN DropLast(host, 5) \o <<endpoint>>
               ELSE host \o <<endpoint>>
        cls == RaisedIn(o)
        clause == CatchingClause(cls)
    IN /\ lastReq' = Request("POST", url, auth_headers, NoPayload)
       /\ call' = Observe(endpoint, o)
       /\ IF cls = None
          THEN /\ stack' = Pop
               /\ sig' = Ret(IF HasPanic(endpoint) THEN PanicJson ELSE o.body)
               /\ UNCHANGED <<refresh_token, access_token>>
          ELSE IF clause = "HTTPError" /\ IsAuthStatus(o.status)
          THEN /\ refresh_token' = None
               /\ access_token' = None
               /\ stack' = CallFrom("reauth", Frame("_authorize", None, "send"))
               /\ sig' = NoSig
          ELSE /\ stack' = Pop
               /\ sig' = Exc(Reraised(clause))
               /\ UNCHANGED <<refresh_token, access_token>>
       /\ UNCHANGED <<session, host, username, password>>

post_authenticated_handler ==
    /\ IF Top.pc = "reauth"
       THEN /\ stack' = CallFrom("retry", Frame("post_authenticated", Top.ep, "send"))
            /\ sig' = NoSig
       ELSE /\ stack' = Pop
            /\ sig' = Exc("ConnectionError")
    /\ UNCHANGED <<session, host, username, password, refresh_token, access_token,
                   lastReq, call>>

\* Mutant of UpdatedHost: the trailing '/' is kept.
UpdatedHost_keepSlash(data) ==
    IF "yapi" \in data.keys /\ Len(data.yapi) > 0 THEN data.yapi ELSE host

\* The base host after _update_services read data.
UpdatedHost(data) ==
    LET url == data.yapi
    IN IF "yapi" \in data.keys
       THEN IF Len(url) > 0
            THEN IF url[Len(url)] = "/" THEN DropLast(url, 1) ELSE url
            ELSE host
       ELSE host

\* _update_services, after its get_authenticated(ENDPOINT_SERVICES) returned data.
_update_services ==
    /\ host' = UpdatedHost(sig.v)
    /\ stack' = Pop
    /\ sig' = Ret(NullJson)
    /\ UNCHANGED <<session, username, password, refresh_token, access_token, lastReq, call>>

\* The payload of the token request.
TokenPayload ==
    IF Truthy(refresh_token)
    THEN [grant_type |-> "refresh_token", refresh_token |-> refresh_token,
          username |-> None, password |-> None]
    ELSE [grant_type |-> "password", refresh_token |-> None,
          username |-> username, password |-> password]

\* _authorize: the token request, answered by o, up to the raise or to the
\* call of _update_services, which starts by calling get_authenticated.
_authorize(o) ==
    LET url == host \o <<ENDPOINT_TOKEN>>
        cls == RaisedIn(o)
        clause == CatchingClause(cls)
        rt == DictGet(o.body, YALE_AUTHENTICATION_REFRESH_TOKEN)
        at == DictGet(o.body, YALE_AUTHENTICATION_ACCESS_TOKEN)
    IN /\ lastReq' = Request("POST", url, <<"Basic", YALE_AUTH_TOKEN>>, TokenPayload)
       /\ call' = Observe(ENDPOINT_TOKEN, o)
       /\ IF cls # None
          THEN /\ stack' = Pop
               /\ sig' = IF clause = "HTTPError" /\ IsAuthStatus(o.status)
                         THEN Exc("AuthenticationError")
                         ELSE Exc(Reraised(clause))
               /\ UNCHANGED <<refresh_token, access_token>>
          ELSE /\ refresh_token' = rt
               /\ access_token' = at
               /\ IF rt = None \/ at = None
                  THEN /\ stack' = Pop
                       /\ sig' = Exc("AuthenticationError")
                  ELSE /\ stack' = CallFrom("services", Frame("_update_services", None, "call"))
                                       \o <<Frame("get_authenticated", ENDPOINT_SERVICES, "send")>>
                       /\ sig' = NoSig
       /\ UNCHANGED <<session, host, username, password>>

\* _authorize after _update_services returned: it returns the two tokens.
_authorize_return ==
    /\ stack' = Pop
    /\ sig' = Ret([NullJson EXCEPT !.keys = {"access_token", "refresh_token"},
                                   !.access_token = access_token,
                                   !.refresh_token = refresh_token])
    /\ UNCHANGED <<session, host, username, password, refresh_token, access_token,
                   lastReq, call>>

\* YaleAuth(username, password): the fields are set and _authorize is called.
YaleAuth_init(u, p) ==
    /\ host' = HOST
    /\ username' = u
    /\ password' = p
    /\ refresh_token' = None
    /\ access_token' = None
    /\ session' = "constructing"
    /\ stack' = <<Frame("__init__", None, "authorize"), Frame("_authorize", None, "send")>>
    /\ sig' = NoSig
    /\ lastReq' = NoReq
    /\ call' = NewCall("__init__", None, <<None, None>>, HOST)

\* __init__ after _authorize returned: the caller has a session.
YaleAuth_init_return ==
    /\ session' = "ready"
    /\ stack' = Pop
    /\ sig' = Ret(NullJson)
    /\ UNCHANGED <<host, username, password, refresh_token, access_token, lastReq, call>>

\* Mutant of Propagate: the request functions call _authorize inside their try
\* block, so that "except Exception" catches what it raises.
Propagate_caught ==
    /\ session' = IF Top.fn = "__init__" THEN "none" ELSE session
    /\ stack' = Pop
    /\ sig' = IF Top.fn \in {"get_authenticated", "post_authenticated"}
              THEN [sig EXCEPT !.e = "UnknownError"] ELSE sig
    /\ UNCHANGED <<host, username, password, refresh_token, access_token, lastReq, call>>

\* An exception passes through the innermost frame: every frame that waits
\* for a callee does so outside a try block or inside an except clause, so
\* none catches.  Out of __init__ it leaves the caller without a session.
Propagate ==
    /\ session' = IF Top.fn = "__init__" THEN "none" ELSE session
    /\ stack' = Pop
    /\ UNCHANGED <<host, username, password, refresh_token, access_token, sig, lastReq, call>>

---------------------------------------------------------------------------
(* Python string and integer operations lock.py rests on.                  *)

Min(a, b) == IF a < b THEN a ELSE b

\* s[a:b] for 0 <= a <= b: what lies beyond the end of s is left out.
Slice(s, a, b) == SubSeq(s, a + 1, Min(b, Len(s)))

\* s[a:]
SliceFrom(s, a) == Slice(s, a, Len(s))

\* needle in hay, for strings: needle occurs in hay as a contiguous part.
Contains(needle, hay) ==
    \E i \in 1..(Len(hay) + 1) :
        /\ i + Len(needle) - 1 <= Len(hay)
        /\ SubSeq(hay, i, i + Len(needle) - 1) = needle

\* The value of a hexadecimal digit, in either case.
HexDigit(c) ==
    CASE c = "0" -> 0 [] c = "1" -> 1 [] c = "2" -> 2 [] c = "3" -> 3
      [] c = "4" -> 4 [] c = "5" -> 5 [] c = "6" -> 6 [] c = "7" -> 7
      [] c = "8" -> 8 [] c = "9" -> 9
      [] c \in {"a", "A"} -> 10 [] c \in {"b", "B"} -> 11 [] c \in {"c", "C"} -> 12
      [] c \in {"d", "D"} -> 13 [] c \in {"e", "E"} -> 14 [] c \in {"f", "F"} -> 15
      [] OTHER -> -1

\* int(s, 16) accepts s (a string without sign, prefix, blanks or underscores).
IsHex(s) == Len(s) > 0 /\ \A i \in 1..Len(s) : HexDigit(s[i]) >= 0

\* int(s, 16) for such a string.
RECURSIVE HexInt(_)
HexInt(s) ==
    IF s = <<>> THEN 0
    ELSE 16 * HexInt(SubSeq(s, 1, Len(s) - 1)) + HexDigit(s[Len(s)])

\* Mutant of BitAnd: the bit above the one asked for is read.
BitAnd_above(n, mask) == IF (n \div (2 * mask)) % 2 = 1 THEN mask ELSE 0

\* n & mask for a mask of one bit.
BitAnd(n, mask) == IF (n \div mask) % 2 = 1 THEN mask ELSE 0

---------------------------------------------------------------------------
(* Bounds and inputs of the lock model.                                    *)

\* The longest minigw_lock_status a device record carries.
MaxStatusLen == 2

\* The longest minigw_configuration_data a device record carries.
MaxConfLen == 33

\* The characters of a minigw_lock_status: hexadecimal digits and one that is none.
StatusChars == {"0", "1", "E", "g"}

LockStatuses == UNION { [1..n -> StatusChars] : n \in 0..MaxStatusLen }

\* The pieces status1 strings are made of, and the strings.
LockMark == <<"device_status.", "lock">>
UnlockMark == <<"device_status.", "un", "lock">>
Status1s ==
    { <<>>, LockMark, UnlockMark, <<"lock">>,
      <<"device_status.", "low_battery">>,
      <<"device_status.", "low_battery", ",">> \o LockMark,
      UnlockMark \o <<",">> \o LockMark }

\* The status1 strings that go with every lock status.
PlainStatus1s == { <<>>, LockMark, UnlockMark }

\* Configuration strings: every prefix of a string of digits.
Digits == <<"0", "1", "2", "3", "4", "5", "6", "7", "8", "9", "A", "B", "C", "D", "E", "F">>
ConfBase(k) == [i \in 1..MaxConfLen |-> Digits[((i * k) % 16) + 1]]
ConfDatas == { Slice(ConfBase(1), 0, n) : n \in 0..MaxConfLen }

\* A full-width configuration string (volume "03", autolock "FF").
ConfDefault ==
    <<"0", "3", "F", "F">> \o [i \in 1..28 |-> IF i \in {5, 6} THEN "1" ELSE "0"]

\* A device record of the panel: which of the keys status1 and
\* minigw_lock_status it has, and the values of the keys the code reads
\* (name, type and minigw_configuration_data are always there).
Device(keys, name, type, status1, status, conf) ==
    [keys |-> keys, name |-> name, type |-> type, status1 |-> status1,
     minigw_lock_status |-> status, minigw_configuration_data |-> conf]

DEVICE_TYPE == "device_type.door_lock"

NoDevice == Device({}, "", "", <<>>, <<>>, <<>>)

BothKeys == {"status1", "minigw_lock_status"}

\* The device records of the model: every lock status with the plain status1
\* strings; every status1 with the empty lock status and with none; every configuration string; and
\* records that differ from others in name and configuration only.
Devices ==
    { Device(BothKeys, "front", DEVICE_TYPE, s1, st, ConfDefault) :
          s1 \in PlainStatus1s, st \in LockStatuses }
    \cup { Device(BothKeys, "front", DEVICE_TYPE, s1, <<>>, ConfDefault) : s1 \in Status1s }
    \cup { Device({"status1"}, "front", DEVICE_TYPE, s1, <<>>, ConfDefault) : s1 \in Status1s }
    \cup { Device(BothKeys, "front", DEVICE_TYPE, LockMark, <<>>, c) : c \in ConfDatas }
    \cup { Device(BothKeys, "back", DEVICE_TYPE, s1, st, ConfBase(1)) :
               s1 \in {LockMark, UnlockMark}, st \in {<<>>, <<"1", "0">>, <<"0", "1">>} }

---------------------------------------------------------------------------
(* YaleLockConfig and YaleLock (lock.py).                                  *)

\* YaleLockConfig(conf_data)
YaleLockConfig(conf_data) ==
    [volume |-> Slice(conf_data, 0, 2),
     autolock |-> Slice(conf_data, 2, 4),
     language |-> Slice(conf_data, 8, 10),
     arm_hold_time |-> Slice(conf_data, 30, 32)]

\* The width of the string to_string starts from.
ConfWidth == 32

\* Mutant of to_string: the arm hold time is written two places early.
to_string_shifted(config) ==
    LET conf0 == [i \in 1..ConfWidth |-> "0"]
        conf1 == Slice(conf0, 0, 0) \o config.volume \o SliceFrom(conf0, 2)
        conf2 == Slice(conf1, 0, 2) \o config.autolock \o SliceFrom(conf1, 4)
        conf3 == Slice(conf2, 0, 8) \o config.language \o SliceFrom(conf2, 10)
    IN Slice(conf3, 0, 28) \o config.arm_hold_time \o SliceFrom(conf3, 30)

\* YaleLockConfig.to_string
to_string(config) ==
    LET conf0 == [i \in 1..ConfWidth |-> "0"]
        conf1 == Slice(conf0, 0, 0) \o config.volume \o SliceFrom(conf0, 2)
        conf2 == Slice(conf1, 0, 2) \o config.autolock \o SliceFrom(conf1, 4)
        conf3 == Slice(conf2, 0, 8) \o config.language \o SliceFrom(conf2, 10)
    IN Slice(conf3, 0, 30) \o config.arm_hold_time \o SliceFrom(conf3, 32)

\* What a method gives: the class it raises (None: it returns) and the state
\* it returns.
Returns(state) == [raised |-> None, state |-> state]
Raises(cls) == [raised |-> cls, state |-> "UNKNOWN"]

\* YaleLock._calc_state on the record the lock holds.
_calc_state(device) ==
    IF "status1" \notin device.keys THEN Raises("KeyError")
    ELSE IF "minigw_lock_status" \notin device.keys THEN Raises("KeyError")
    ELSE LET raw_state == device.status1
             lock_status_str == device.minigw_lock_status
         IN IF lock_status_str # <<>>
            THEN IF ~IsHex(lock_status_str) THEN Raises("ValueError")
                 ELSE LET lock_status == HexInt(lock_status_str)
                          closed == BitAnd(lock_status, 16) = 16
                          locked == BitAnd(lock_status, 1) = 1
                      IN IF closed /\ locked THEN Returns("LOCKED")
                         ELSE IF closed /\ ~locked THEN Returns("UNLOCKED")
                         ELSE IF ~closed THEN Returns("DOOR_OPEN")
                         ELSE Returns("UNKNOWN")
            ELSE IF Contains(LockMark, raw_state) THEN Returns("LOCKED")
            ELSE IF Contains(UnlockMark, raw_state) THEN Returns("UNLOCKED")
            ELSE Returns("UNKNOWN")

\* A YaleLock object: its fields.  NoLock: the caller holds no lock.
YaleLock(name, state, config, device) ==
    [exists |-> TRUE, name |-> name, state |-> state, config |-> config, device |-> device]

NoLock == [exists |-> FALSE, name |-> "", state |-> "UNKNOWN",
           config |-> YaleLockConfig(<<>>), device |-> NoDevice]

\* The bookkeeping of a command: the operation, the lock before it (where a
\* claim compares with it), the device record and the value it was given,
\* what the POST returned to it; for a getter the retry argument it was
\* called with, the attempts it has begun, and in resp how the try block of
\* its latest attempt ended.
Command(op, before, device, value, resp) ==
    [op |-> op, lock0 |-> before, device |-> device, value |-> value, resp |-> resp,
     retry |-> 0, attempts |-> 0]

NoCmd == Command("none", NoLock, NoDevice, <<>>, NoSig)

\* YaleLock(device, lock_api): the fields are set and update(device) runs;
\* when _calc_state raises there is no object.
YaleLock_init(device) ==
    LET r == _calc_state(device)
    IN /\ lock' = IF r.raised # None THEN NoLock
                  ELSE YaleLock(device.name, r.state,
                                YaleLockConfig(device.minigw_configuration_data), device)
       /\ sig' = IF r.raised # None THEN Exc(r.raised) ELSE Ret(NullJson)
       /\ cmd' = Command("YaleLock", NoLock, device, <<>>, NoSig)

\* Mutant of update: _calc_state runs before the record is stored.
update_stale(device) ==
    LET r == _calc_state(lock.device)
        stored == [lock EXCEPT !.device = device, !.name = device.name]
    IN /\ lock' = IF r.raised # None THEN stored
                  ELSE [stored EXCEPT !.state = r.state,
                            !.config = YaleLockConfig(device.minigw_configuration_data)]
       /\ sig' = IF r.raised # None THEN Exc(r.raised) ELSE Ret(NullJson)
       /\ cmd' = Command("update", NoLock, device, <<>>, NoSig)

\* YaleLock.update(device): the record and the name are stored before
\* _calc_state runs, the state and the configuration after it.
update(device) ==
    LET r == _calc_state(device)
        stored == [lock EXCEPT !.device = device, !.name = device.name]
    IN /\ lock' = IF r.raised # None THEN stored
                  ELSE [stored EXCEPT !.state = r.state,
                            !.config = YaleLockConfig(device.minigw_configuration_data)]
       /\ sig' = IF r.raised # None THEN Exc(r.raised) ELSE Ret(NullJson)
       /\ cmd' = Command("update", NoLock, device, <<>>, NoSig)

\* YaleLockConfig(config.to_string()) takes the place of the lock's configuration.
reencode ==
    /\ lock' = [lock EXCEPT !.config = YaleLockConfig(to_string(lock.config))]
    /\ sig' = Ret(NullJson)
    /\ cmd' = Command("to_string", lock, lock.device, <<>>, NoSig)

\* A caller that is not running: its stack and what goes with it.
Context(stk, s, req, c) == [stack |-> stk, sig |-> s, lastReq |-> req, call |-> c]

NoContext == Context(<<>>, NoSig, NoReq, NewCall("none", None, <<None, None>>, HOST))

---------------------------------------------------------------------------
(* The actions.                                                            *)

Idle == stack = <<>>
Sending(fn) == stack # <<>> /\ sig.k = "none" /\ Top.fn = fn /\ Top.pc = "send"
Resuming(fn) == stack # <<>> /\ sig.k = "ret" /\ Top.fn = fn

\* The server may answer 401/403 to a data request only while fewer than
\* MaxRetryDepth handlers are open.
Allowed(o) ==
    (o.raised = None /\ o.status \in {401, 403}) => HandlerDepth(stack) < MaxRetryDepth

Construct ==
    /\ Idle
    /\ \E u \in Usernames, p \in Passwords : YaleAuth_init(u, p)
    /\ UNCHANGED aux

CallGet ==
    /\ Idle
    /\ session = "ready"
    /\ \E endpoint \in GetEndpoints :
          /\ stack' = <<Frame("get_authenticated", endpoint, "send")>>
          /\ call' = NewCall("get_authenticated", endpoint,
                             <<access_token, refresh_token>>, host)
    /\ sig' = NoSig
    /\ lastReq' = NoReq
    /\ UNCHANGED <<session, host, username, password, refresh_token, access_token>>
    /\ UNCHANGED aux

CallPost ==
    /\ Idle
    /\ session = "ready"
    /\ \E endpoint \in PostEndpoints :
          /\ stack' = <<Frame("post_authenticated", endpoint, "send")>>
          /\ call' = NewCall("post_authenticated", endpoint,
                             <<access_token, refresh_token>>, host)
    /\ sig' = NoSig
    /\ lastReq' = NoReq
    /\ UNCHANGED <<session, host, username, password, refresh_token, access_token>>
    /\ UNCHANGED aux

GetExchange ==
    /\ Sending("get_authenticated")
    /\ \E o \in Outcomes(Top.ep) : Allowed(o) /\ get_authenticated(o)
    /\ UNCHANGED aux

GetHandler ==
    /\ Resuming("get_authenticated")
    /\ get_authenticated_handler
    /\ UNCHANGED aux

PostExchange ==
    /\ Sending("post_authenticated")
    /\ \E o \in Outcomes(Top.ep) : Allowed(o) /\ post_authenticated(o)
    /\ UNCHANGED aux

PostHandler ==
    /\ Resuming("post_authenticated")
    /\ post_authenticated_handler
    /\ UNCHANGED aux

AuthorizeExchange ==
    /\ Sending("_authorize")
    /\ \E o \in Outcomes(ENDPOINT_TOKEN) : _authorize(o)
    /\ UNCHANGED aux

AuthorizeReturn ==
    /\ Resuming("_authorize")
    /\ _authorize_return
    /\ UNCHANGED aux

UpdateServices ==
    /\ Resuming("_update_services")
    /\ _update_services
    /\ UNCHANGED aux

InitReturn ==
    /\ Resuming("__init__")
    /\ YaleAuth_init_return
    /\ UNCHANGED aux

Raise ==
    /\ stack # <<>>
    /\ sig.k = "exc"
    /\ Propagate
    /\ UNCHANGED aux

Init ==
    /\ session = "none"
    /\ host = HOST
    /\ username = None
    /\ password = None
    /\ refresh_token = None
    /\ access_token = None
    /\ stack = <<>>
    /\ sig = NoSig
    /\ lastReq = NoReq
    /\ call = NewCall("none", None, <<None, None>>, HOST)
    /\ lock = NoLock
    /\ cmd = NoCmd
    /\ other = NoContext

Next ==
    \/ Construct
    \/ CallGet
    \/ CallPost
    \/ GetExchange
    \/ GetHandler
    \/ PostExchange
    \/ PostHandler
    \/ AuthorizeExchange
    \/ AuthorizeReturn
    \/ UpdateServices
    \/ InitReturn
    \/ Raise

Spec == Init /\ [][Next]_vars

---------------------------------------------------------------------------
(* The lock object on its own: it is built from a device record, updated   *)
(* from device records, and its configuration is re-encoded.               *)

\* What the methods of YaleLock and YaleLockConfig never touch.
sessionVars == <<session, host, username, password, refresh_token, access_token,
                 stack, lastReq, call, other>>

NewLock ==
    /\ ~lock.exists
    /\ \E device \in Devices : YaleLock_init(device)
    /\ UNCHANGED sessionVars

UpdateLock ==
    /\ lock.exists
    /\ \E device \in Devices : update(device)
    /\ UNCHANGED sessionVars

Reencode ==
    /\ lock.exists
    /\ reencode
    /\ UNCHANGED sessionVars

NextLock ==
    \/ NewLock
    \/ UpdateLock
    \/ Reencode

SpecLock == Init /\ [][NextLock]_vars

---------------------------------------------------------------------------
(* The commands of the client (client.py) and of the lock API (lock.py):   *)
(* each calls post_authenticated and turns what it returns into a bool.    *)

\* const.YALE_CODE_RESULT_SUCCESS, the code client.py compares with.
YALE_CODE_RESULT_SUCCESS == "000"

\* Mutant of CODE_SUCCESS: another code counts as success.
CODE_SUCCESS_other == "001"

\* YaleDoorManAPI.CODE_SUCCESS
CODE_SUCCESS == "000"

_ENDPOINT_DEVICES_CONTROL == "/api/panel/device_control/"
_ENDPOINT_DEVICES_UNLOCK == "/api/minigw/unlock/"
_ENDPOINT_DEVICES_CONFIG == "/api/minigw/lock/config/"
_ENDPOINT_DEVICES_UPDATE == "/api/panel/device/"

\* YaleLockVolume: HIGH, LOW, OFF.
YaleLockVolume == { <<"0", "3">>, <<"0", "2">>, <<"0", "1">> }

\* "FF" if autolock else "00"
AutolockValue(autolock) == IF autolock THEN <<"F", "F">> ELSE <<"0", "0">>

\* The arguments of set_armed_status: arm_full, arm_partial, disarm.
ArmModes == { <<"arm">>, <<"home">>, <<"disarm">> }

\* A Python bool handed from a frame to its caller.
PyBool(b) == [NullJson EXCEPT !.keys = {"bool"}, !.code = IF b THEN "True" ELSE "False"]

\* The device records the commands' lock is built from.
CommandDevices ==
    { Device(BothKeys, "front", DEVICE_TYPE, UnlockMark, <<"1", "0">>, ConfDefault),
      Device(BothKeys, "back", DEVICE_TYPE, LockMark, <<>>, ConfDefault) }

\* The server of the commands: it answers with every kind of outcome the
\* commands tell apart (a body with the success code, with another code, with
\* no code; a refusal; another error status; a failure inside requests), with
\* one token pair and without relocation.
CommandOutcomes(endpoint) ==
    IF endpoint = ENDPOINT_TOKEN
    THEN { Answer(200, Json({"access_token", "refresh_token"}, "", <<>>, "a1", "r1")),
           Answer(200, Json({"error"}, "", <<>>, "", "")),
           Answer(401, NullJson),
           Failure("ConnectionError") }
    ELSE IF endpoint = ENDPOINT_SERVICES
    THEN { Answer(200, NullJson), Answer(401, NullJson), Failure("ConnectionError") }
    ELSE { Answer(200, b) : b \in DataBodies \cup {NullJson} }
         \cup { Answer(401, NullJson), Answer(500, NullJson),
                Failure("ConnectionError"), Failure("ReadTimeout") }

\* A command begins: its frame waits for the post_authenticated it calls.
StartCommand(op, endpoint, value) ==
    /\ stack' = <<Frame(op, endpoint, "post"), Frame("post_authenticated", endpoint, "send")>>
    /\ sig' = NoSig
    /\ lastReq' = NoReq
    /\ call' = NewCall("post_authenticated", endpoint, <<access_token, refresh_token>>, host)
    /\ cmd' = Command(op, lock, lock.device, value, NoSig)
    /\ UNCHANGED <<session, host, username, password, refresh_token, access_token, lock, other>>

\* The frame of a command returns or raises; the lock is as given.
EndCommand(result, after) ==
    /\ stack' = Pop
    /\ sig' = result
    /\ lock' = after
    /\ cmd' = [cmd EXCEPT !.resp = sig]
    /\ UNCHANGED <<session, host, username, password, refresh_token, access_token,
                   lastReq, call, other>>

\* response["code"] == sentinel, as a result: KeyError when there is no code.
CodeIs(response, sentinel) ==
    IF "code" \notin response.keys THEN Exc("KeyError")
    ELSE Ret(PyBool(response.code = sentinel))

\* YaleSmartAlarmClient.set_armed_status after post_authenticated returned.
set_armed_status == EndCommand(CodeIs(sig.v, YALE_CODE_RESULT_SUCCESS), lock)

\* YaleSmartAlarmClient.trigger_panic_button after post_authenticated returned.
trigger_panic_button == EndCommand(CodeIs(sig.v, YALE_CODE_RESULT_SUCCESS), lock)

\* Mutant of close_lock: the state is set whatever the code is.
close_lock_always ==
    EndCommand(CodeIs(sig.v, CODE_SUCCESS),
               IF "code" \in sig.v.keys THEN [lock EXCEPT !.state = "LOCKED"] ELSE lock)

\* YaleDoorManAPI.close_lock after post_authenticated returned.
close_lock ==
    LET success == CodeIs(sig.v, CODE_SUCCESS)
    IN EndCommand(success,
                  IF success = Ret(PyBool(TRUE)) THEN [lock EXCEPT !.state = "LOCKED"] ELSE lock)

\* YaleDoorManAPI.open_lock after post_authenticated returned.
open_lock ==
    LET success == CodeIs(sig.v, CODE_SUCCESS)
    IN EndCommand(success,
                  IF success = Ret(PyBool(TRUE)) THEN [lock EXCEPT !.state = "UNLOCKED"] ELSE lock)

\* YaleDoorManAPI._put_lock_request: YaleAuth has no attribute
\* put_authenticated, so evaluating self.auth.put_authenticated raises
\* AttributeError, which neither except clause of the function catches.
_put_lock_request == Exc("AttributeError")

\* YaleDoorManAPI.set_volume after post_authenticated returned.
set_volume ==
    LET success == CodeIs(sig.v, CODE_SUCCESS)
    IN IF success = Ret(PyBool(TRUE))
       THEN EndCommand(_put_lock_request, [lock EXCEPT !.config.volume = cmd.value])
       ELSE EndCommand(success, lock)

\* YaleDoorManAPI.set_autolock after post_authenticated returned.
set_autolock ==
    LET success == CodeIs(sig.v, CODE_SUCCESS)
    IN IF success = Ret(PyBool(TRUE))
       THEN EndCommand(_put_lock_request, [lock EXCEPT !.config.autolock = cmd.value])
       ELSE EndCommand(success, lock)

---------------------------------------------------------------------------
(* The actions of the commands.                                            *)

Ready == Idle /\ session = "ready"

BuildLock ==
    /\ Ready
    /\ ~lock.exists
    /\ \E device \in CommandDevices : YaleLock_init(device)
    /\ UNCHANGED sessionVars

CallSetArmedStatus ==
    /\ Ready
    /\ \E mode \in ArmModes : StartCommand("set_armed_status", _ENDPOINT_SET_MODE, mode)

CallTriggerPanicButton ==
    /\ Ready
    /\ StartCommand("trigger_panic_button", _ENDPOINT_PANIC_BUTTON, <<>>)

CallCloseLock ==
    /\ Ready
    /\ lock.exists
    /\ StartCommand("close_lock", _ENDPOINT_DEVICES_CONTROL, <<>>)

CallOpenLock ==
    /\ Ready
    /\ lock.exists
    /\ StartCommand("open_lock", _ENDPOINT_DEVICES_UNLOCK, <<>>)

CallSetVolume ==
    /\ Ready
    /\ lock.exists
    /\ \E volume \in YaleLockVolume : StartCommand("set_volume", _ENDPOINT_DEVICES_CONFIG, volume)

CallSetAutolock ==
    /\ Ready
    /\ lock.exists
    /\ \E autolock \in BOOLEAN :
          StartCommand("set_autolock", _ENDPOINT_DEVICES_CONFIG, AutolockValue(autolock))

SetArmedStatusReturn == Resuming("set_armed_status") /\ set_armed_status
TriggerPanicButtonReturn == Resuming("trigger_panic_button") /\ trigger_panic_button
CloseLockReturn == Resuming("close_lock") /\ close_lock
OpenLockReturn == Resuming("open_lock") /\ open_lock
SetVolumeReturn == Resuming("set_volume") /\ set_volume
SetAutolockReturn == Resuming("set_autolock") /\ set_autolock

CommandPostExchange ==
    /\ Sending("post_authenticated")
    /\ \E o \in CommandOutcomes(Top.ep) : Allowed(o) /\ post_authenticated(o)
    /\ UNCHANGED aux

CommandGetExchange ==
    /\ Sending("get_authenticated")
    /\ \E o \in CommandOutcomes(Top.ep) : Allowed(o) /\ get_authenticated(o)
    /\ UNCHANGED aux

CommandAuthorizeExchange ==
    /\ Sending("_authorize")
    /\ \E o \in CommandOutcomes(ENDPOINT_TOKEN) : _authorize(o)
    /\ UNCHANGED aux

NextCommand ==
    \/ Construct
    \/ InitReturn
    \/ BuildLock
    \/ CallSetArmedStatus
    \/ CallTriggerPanicButton
    \/ CallCloseLock
    \/ CallOpenLock
    \/ CallSetVolume
    \/ CallSetAutolock
    \/ SetArmedStatusReturn
    \/ TriggerPanicButtonReturn
    \/ CloseLockReturn
    \/ OpenLockReturn
    \/ SetVolumeReturn
    \/ SetAutolockReturn
    \/ CommandPostExchange
    \/ PostHandler
    \/ CommandGetExchange
    \/ GetHandler
    \/ CommandAuthorizeExchange
    \/ AuthorizeReturn
    \/ UpdateServices
    \/ Raise

SpecCommand == Init /\ [][NextCommand]_vars

---------------------------------------------------------------------------
(* The state of one lock under everything that sets it: the constructor,   *)
(* update, set_state and the two commands that move the bolt.              *)

\* YaleLockState: the members of the enum.
YaleLockState == {"LOCKED", "UNLOCKED", "DOOR_OPEN", "UNKNOWN"}

\* The records update is called with: those of the commands, the same lock
\* with the door open, and a record without the optional minigw_lock_status.
UpdateDevices ==
    CommandDevices \cup
    { Device(BothKeys, "front", DEVICE_TYPE, UnlockMark, <<"0", "1">>, ConfDefault),
      Device({"status1"}, "back", DEVICE_TYPE, LockMark, <<>>, ConfDefault) }

\* YaleLock.set_state(new_state)
set_state(new_state) ==
    /\ lock' = [lock EXCEPT !.state = new_state]
    /\ sig' = Ret(NullJson)
    /\ cmd' = Command("set_state", lock, lock.device, new_state, NoSig)

UpdateBuiltLock ==
    /\ Ready
    /\ lock.exists
    /\ \E device \in UpdateDevices : update(device)
    /\ UNCHANGED sessionVars

SetState ==
    /\ Ready
    /\ lock.exists
    /\ \E new_state \in YaleLockState : set_state(new_state)
    /\ UNCHANGED sessionVars

NextState ==
    \/ Construct
    \/ InitReturn
    \/ BuildLock
    \/ UpdateBuiltLock
    \/ SetState
    \/ CallCloseLock
    \/ CallOpenLock
    \/ CloseLockReturn
    \/ OpenLockReturn
    \/ CommandPostExchange
    \/ PostHandler
    \/ CommandGetExchange
    \/ GetHandler
    \/ CommandAuthorizeExchange
    \/ AuthorizeReturn
    \/ UpdateServices
    \/ Raise

SpecState == Init /\ [][NextState]_vars

---------------------------------------------------------------------------
(* The getters of the client (client.py) and YaleDoorManAPI.get (lock.py): *)
(* each calls get_authenticated inside a try block and, but for get, calls *)
(* itself with retry - 1 from the except clause.                           *)

\* The largest retry argument a getter is called with.
MaxRetry == 2

_ENDPOINT_GET_MODE == "/api/panel/mode/"
_ENDPOINT_STATUS == "/yapi/api/panel/status/"
_ENDPOINT_CYCLE == "/yapi/api/panel/cycle/"
_ENDPOINT_ONLINE == "/yapi/api/panel/online/"
_ENDPOINT_HISTORY == "/yapi/api/event/report/?page_num=1&set_utc=1"
_ENDPOINT_CHECK == "/yapi/api/auth/check/"
_ENDPOINT_PANEL_INFO == "/yapi/api/panel/info/"

\* const.YALE_LOCK_STATE_*, the strings get_locks_status gives.
YALE_LOCK_STATE_LOCKED == "locked"
YALE_LOCK_STATE_UNLOCKED == "unlocked"
YALE_LOCK_STATE_DOOR_OPEN == "dooropen"
YALE_LOCK_STATE_UNKNOWN == "unknown"

\* A body with the given value under "data".
DataJson(data) == [NullJson EXCEPT !.keys = {"data"}, !.data = data]

\* Python values handed from a frame to its caller: a str, a list of device
\* records (for a list of locks: the records they were built from), a dict
\* of strings, a YaleLock (the record it was built from), and an object of
\* which only the kind matters.
PyStr(s) == [NullJson EXCEPT !.keys = {"str"}, !.code = s]
PyList(devices) == [NullJson EXCEPT !.keys = {"list"}, !.data.devices = devices]
PyDict(dict) == [NullJson EXCEPT !.keys = {"dict"}, !.data.dict = dict]
PyObject(kind) == [NullJson EXCEPT !.keys = {kind}]
PyLock(device) == [NullJson EXCEPT !.keys = {"YaleLock"}, !.data.devices = <<device>>]

\* The values of a field of the panel status.
PanelValues == {"main.normal", "main.fail"}

PanelStatuses ==
    { PanelStatus(acfail, battery, tamper, jam) :
          acfail \in PanelValues, battery \in PanelValues,
          tamper \in PanelValues, jam \in PanelValues }

\* The records device lists of two are made of: two door locks of one name,
\* a door lock of another name, a door contact named like a lock, and a door
\* lock without the optional minigw_lock_status.
ListDevices ==
    { Device(BothKeys, "front", DEVICE_TYPE, UnlockMark, <<"1", "1">>, ConfDefault),
      Device(BothKeys, "front", DEVICE_TYPE, LockMark, <<"0", "0">>, ConfDefault),
      Device(BothKeys, "back", DEVICE_TYPE, UnlockMark, <<>>, ConfDefault),
      Device({"status1"}, "front", "device_type.door_contact", LockMark, <<>>, ConfDefault),
      Device({"status1"}, "side", DEVICE_TYPE, LockMark, <<>>, ConfDefault) }

\* The lists of device records a device-status response carries.
DeviceLists ==
    { <<>> } \cup { <<d>> : d \in Devices \cup ListDevices }
    \cup { <<d, e>> : d \in ListDevices, e \in ListDevices }

\* The names YaleDoorManAPI.get is asked for.
LockNames == {"front", "back", "side", "garage"}

\* The server of the getters: the token endpoint accepts or refuses, the
\* services endpoint does not relocate, and a data endpoint answers with a
\* body for its kind of data, with a body without "data", with 401 or with
\* a failure inside requests.
GetterOutcomes(endpoint) ==
    IF endpoint = ENDPOINT_TOKEN
    THEN { Answer(200, Json({"access_token", "refresh_token"}, "", <<>>, "a1", "r1")),
           Answer(401, NullJson) }
    ELSE IF endpoint = ENDPOINT_SERVICES
    THEN { Answer(200, NullJson) }
    ELSE { Answer(200, NullJson), Answer(401, NullJson), Failure("ReadTimeout") }
         \cup (IF endpoint = _ENDPOINT_STATUS
               THEN { Answer(200, DataJson(Data(p, <<>>, NoDict))) : p \in PanelStatuses }
               ELSE IF endpoint = _ENDPOINT_DEVICES_STATUS
               THEN { Answer(200, DataJson(Data(NoData.panel, l, NoDict))) : l \in DeviceLists }
               ELSE { Answer(200, DataJson(NoData)) })

\* The frame of a getter: the function, the endpoint it fetches, where it
\* waits, its retry argument and the data it has fetched in its try block.
GetterFrame(fn, ep, pc, retry, got) ==
    [fn |-> fn, ep |-> ep, pc |-> pc, retry |-> retry, got |-> got]

\* The endpoints of get_all, in the order of its try block.
GetAllEndpoints ==
    << _ENDPOINT_DEVICES_STATUS, _ENDPOINT_GET_MODE, _ENDPOINT_STATUS, _ENDPOINT_CYCLE,
       _ENDPOINT_ONLINE, _ENDPOINT_HISTORY, _ENDPOINT_PANEL_INFO, _ENDPOINT_CHECK >>

\* The endpoint a getter fetches first.
FirstEndpoint(fn) ==
    IF fn = "get_status" THEN _ENDPOINT_STATUS ELSE _ENDPOINT_DEVICES_STATUS

\* The server while get_all runs: as the server of the getters, with two
\* device lists and two panel statuses.
GetAllOutcomes(endpoint) ==
    IF endpoint \in {ENDPOINT_TOKEN, ENDPOINT_SERVICES} THEN GetterOutcomes(endpoint)
    ELSE { Answer(401, NullJson), Failure("ReadTimeout") }
         \cup (IF endpoint = _ENDPOINT_STATUS
               THEN { Answer(200, DataJson(Data(PanelStatus(v, v, v, v), <<>>, NoDict))) :
                          v \in PanelValues }
               ELSE IF endpoint = _ENDPOINT_DEVICES_STATUS
               THEN { Answer(200, DataJson(Data(NoData.panel, l, NoDict))) :
                          l \in { <<>>, <<CHOOSE d \in CommandDevices : d.name = "front">> } }
               ELSE { Answer(200, DataJson(NoData)) })

\* Mutant of MayRetry: the last retry is not made.
MayRetry_short(retry) == retry > 1

\* if retry > 0
MayRetry(retry) == retry > 0

\* A getter is called: its frame waits at pc ("fetch": in the try block of a
\* getter that retries) for the get_authenticated it calls.
StartGetter(op, pc, retry, value) ==
    /\ stack' = << GetterFrame(op, FirstEndpoint(op), pc, retry, NoData),
                   Frame("get_authenticated", FirstEndpoint(op), "send") >>
    /\ sig' = NoSig
    /\ lastReq' = NoReq
    /\ call' = NewCall("get_authenticated", FirstEndpoint(op),
                       <<access_token, refresh_token>>, host)
    /\ cmd' = [Command(op, lock, NoDevice, value, NoSig) EXCEPT !.retry = retry, !.attempts = 1]
    /\ UNCHANGED <<session, host, username, password, refresh_token, access_token, lock, other>>

\* The frame of a getter returns or raises after its try block ended as
\* outcome.
EndGetter(outcome, result) ==
    /\ stack' = Pop
    /\ sig' = result
    /\ cmd' = [cmd EXCEPT !.resp = outcome]
    /\ UNCHANGED <<session, host, username, password, refresh_token, access_token,
                   lastReq, call, lock, other>>

\* except Exception, entered with the exception failure: with retries left the
\* getter calls itself with retry - 1, which begins with the fetch (the
\* waiting frame reads none of the try block's variables again: it keeps
\* none); with none left the bare raise hands the exception on.
except_Exception(failure) ==
    IF MayRetry(Top.retry)
    THEN /\ stack' = Pop
                     \o << GetterFrame(Top.fn, FirstEndpoint(Top.fn), "again", Top.retry, NoData),
                           GetterFrame(Top.fn, FirstEndpoint(Top.fn), "fetch", Top.retry - 1, NoData),
                           Frame("get_authenticated", FirstEndpoint(Top.fn), "send") >>
         /\ sig' = NoSig
         /\ call' = NewCall("get_authenticated", FirstEndpoint(Top.fn),
                            <<access_token, refresh_token>>, host)
         /\ cmd' = [cmd EXCEPT !.resp = failure, !.attempts = @ + 1]
         /\ UNCHANGED <<session, host, username, password, refresh_token, access_token,
                        lastReq, lock, other>>
    ELSE EndGetter(failure, failure)

\* Mutant of PanelOk: jam is not looked at.
PanelOk_noJam(panel) ==
    /\ panel.acfail = panel.battery
    /\ panel.battery = panel.tamper
    /\ panel.tamper = "main.normal"

\* acfail == battery == tamper == jam == "main.normal"
PanelOk(panel) ==
    /\ panel.acfail = panel.battery
    /\ panel.battery = panel.tamper
    /\ panel.tamper = panel.jam
    /\ panel.jam = "main.normal"

\* get_status after get_authenticated returned: the lines after the try
\* block, where status["data"] raises KeyError when there is no "data".
get_status ==
    LET status == sig.v
    IN EndGetter(sig,
                 IF "data" \notin status.keys THEN Exc("KeyError")
                 ELSE IF PanelOk(status.data.panel) THEN Ret(PyStr("ok"))
                 ELSE Ret(PyStr("error")))

\* The place of an endpoint in the try block of get_all.
Place(endpoint) == CHOOSE i \in 1..Len(GetAllEndpoints) : GetAllEndpoints[i] = endpoint

\* get_all after one of its get_authenticated calls returned: the body is
\* kept and the next endpoint is fetched, or, after the last, the bodies
\* are returned as a YaleSmartAlarmData.
get_all ==
    LET here == Place(Top.ep)
        got == IF Top.ep = _ENDPOINT_DEVICES_STATUS
               THEN [Top.got EXCEPT !.devices = sig.v.data.devices]
               ELSE IF Top.ep = _ENDPOINT_STATUS
               THEN [Top.got EXCEPT !.panel = sig.v.data.panel]
               ELSE Top.got
    IN IF here < Len(GetAllEndpoints)
       THEN LET next == GetAllEndpoints[here + 1]
            IN /\ stack' = Append([stack EXCEPT ![Len(stack)].ep = next,
                                                ![Len(stack)].got = got],
                                  Frame("get_authenticated", next, "send"))
               /\ sig' = NoSig
               /\ call' = NewCall("get_authenticated", next,
                                  <<access_token, refresh_token>>, host)
               /\ UNCHANGED <<session, host, username, password, refresh_token, access_token,
                              lastReq, lock, cmd, other>>
       ELSE EndGetter(Ret(DataJson(got)),
                      Ret([PyObject("YaleSmartAlarmData") EXCEPT !.data = got]))

\* Mutant of LockStateString: the latch bit alone decides.
LockStateString_latchOnly(device) ==
    IF "status1" \notin device.keys THEN Raises("KeyError")
    ELSE IF "minigw_lock_status" \notin device.keys THEN Raises("KeyError")
    ELSE LET state == device.status1
             lock_status_str == device.minigw_lock_status
         IN IF lock_status_str # <<>>
            THEN IF ~IsHex(lock_status_str) THEN Raises("ValueError")
                 ELSE LET lock_status == HexInt(lock_status_str)
                          locked == BitAnd(lock_status, 1) = 1
                      IN IF locked THEN Returns(YALE_LOCK_STATE_LOCKED)
                         ELSE Returns(YALE_LOCK_STATE_UNLOCKED)
            ELSE IF Contains(LockMark, state) THEN Returns(YALE_LOCK_STATE_LOCKED)
            ELSE IF Contains(UnlockMark, state) THEN Returns(YALE_LOCK_STATE_UNLOCKED)
            ELSE Returns(YALE_LOCK_STATE_UNKNOWN)

\* The body of the loop of get_locks_status for one door-lock record: the
\* string it puts under the record's name, or the class it raises.
LockStateString(device) ==
    IF "status1" \notin device.keys THEN Raises("KeyError")
    ELSE IF "minigw_lock_status" \notin device.keys THEN Raises("KeyError")
    ELSE LET state == device.status1
             lock_status_str == device.minigw_lock_status
         IN IF lock_status_str # <<>>
            THEN IF ~IsHex(lock_status_str) THEN Raises("ValueError")
                 ELSE LET lock_status == HexInt(lock_status_str)
                          closed == BitAnd(lock_status, 16) = 16
                          locked == BitAnd(lock_status, 1) = 1
                      IN IF closed /\ locked THEN Returns(YALE_LOCK_STATE_LOCKED)
                         ELSE IF closed /\ ~locked THEN Returns(YALE_LOCK_STATE_UNLOCKED)
                         ELSE IF ~closed THEN Returns(YALE_LOCK_STATE_DOOR_OPEN)
                         ELSE Returns(state)
            ELSE IF Contains(LockMark, state) THEN Returns(YALE_LOCK_STATE_LOCKED)
            ELSE IF Contains(UnlockMark, state) THEN Returns(YALE_LOCK_STATE_UNLOCKED)
            ELSE Returns(YALE_LOCK_STATE_UNKNOWN)

\* locks[name] = state
DictSet(dict, name, state) ==
    [n \in DOMAIN dict \cup {name} |-> IF n = name THEN state ELSE dict[n]]

\* The loop of get_locks_status over the rest of the device records, with
\* the dict so far: the dict it ends with, or the class it raises.
RECURSIVE LocksStatus(_, _)
LocksStatus(devices, locks) ==
    IF devices = <<>> THEN [raised |-> None, dict |-> locks]
    ELSE LET device == Head(devices)
         IN IF device.type # DEVICE_TYPE THEN LocksStatus(Tail(devices), locks)
            ELSE LET r == LockStateString(device)
                 IN IF r.raised # None THEN [raised |-> r.raised, dict |-> locks]
                    ELSE LocksStatus(Tail(devices), DictSet(locks, device.name, r.state))

\* get_locks_status after get_authenticated returned: the lines after the
\* try block.
get_locks_status ==
    LET devices == sig.v
        r == LocksStatus(devices.data.devices, NoDict)
    IN EndGetter(sig,
                 IF "data" \notin devices.keys THEN Exc("KeyError")
                 ELSE IF r.raised # None THEN Exc(r.raised)
                 ELSE Ret(PyDict(r.dict)))

\* list(self.lock_api.locks()) over the rest of the device records, with the
\* records of the locks built so far: a YaleLock is built from every
\* door-lock record, in order; building raises what _calc_state raises.
RECURSIVE locks(_, _)
locks(devices, built) ==
    IF devices = <<>> THEN [raised |-> None, devices |-> built]
    ELSE LET device == Head(devices)
         IN IF device.type # DEVICE_TYPE THEN locks(Tail(devices), built)
            ELSE IF _calc_state(device).raised # None
            THEN [raised |-> _calc_state(device).raised, devices |-> built]
            ELSE locks(Tail(devices), Append(built, device))

\* get_locks after the get_authenticated of locks() returned: the rest of
\* the try block; what it raises is caught by except Exception.
get_locks ==
    LET devices == sig.v
        r == locks(devices.data.devices, <<>>)
    IN IF "data" \notin devices.keys THEN except_Exception(Exc("KeyError"))
       ELSE IF r.raised # None THEN except_Exception(Exc(r.raised))
       ELSE EndGetter(Ret(PyList(r.devices)), Ret(PyList(r.devices)))

\* for lock in self.locks(): if lock == name: return lock, over the rest of
\* the device records: locks() builds a YaleLock from each door-lock record
\* it comes to, and the loop stops at the first one with the name.
RECURSIVE FirstLock(_, _)
FirstLock(devices, name) ==
    IF devices = <<>> THEN [raised |-> None, found |-> FALSE, device |-> NoDevice]
    ELSE LET device == Head(devices)
         IN IF device.type # DEVICE_TYPE THEN FirstLock(Tail(devices), name)
            ELSE IF _calc_state(device).raised # None
            THEN [raised |-> _calc_state(device).raised, found |-> FALSE, device |-> NoDevice]
            ELSE IF device.name = name
            THEN [raised |-> None, found |-> TRUE, device |-> device]
            ELSE FirstLock(Tail(devices), name)

\* YaleDoorManAPI.get(name) after the get_authenticated of locks() returned.
get ==
    LET devices == sig.v
        r == FirstLock(devices.data.devices, cmd.value)
    IN EndGetter(sig,
                 IF "data" \notin devices.keys THEN Exc("KeyError")
                 ELSE IF r.raised # None THEN Exc(r.raised)
                 ELSE IF r.found THEN Ret(PyLock(r.device))
                 ELSE Ret(PyObject("None")))

---------------------------------------------------------------------------
(* The actions of the getters.                                             *)

CallGetStatus ==
    /\ Ready
    /\ \E retry \in 0..MaxRetry : StartGetter("get_status", "fetch", retry, <<>>)

CallGetAll ==
    /\ Ready
    /\ \E retry \in 0..MaxRetry : StartGetter("get_all", "fetch", retry, <<>>)

CallGetLocks ==
    /\ Ready
    /\ \E retry \in 0..MaxRetry : StartGetter("get_locks", "fetch", retry, <<>>)

CallGetLocksStatus ==
    /\ Ready
    /\ \E retry \in 0..MaxRetry : StartGetter("get_locks_status", "fetch", retry, <<>>)

CallGetLock ==
    /\ Ready
    /\ \E name \in LockNames : StartGetter("get", "locks", 0, name)

\* get_authenticated returned into the try block of a getter.
Fetched(fn) == Resuming(fn) /\ Top.pc = "fetch"

GetStatusReturn == Fetched("get_status") /\ get_status
GetAllReturn == Fetched("get_all") /\ get_all
GetLocksReturn == Fetched("get_locks") /\ get_locks
GetLocksStatusReturn == Fetched("get_locks_status") /\ get_locks_status
GetLockReturn == Resuming("get") /\ get

\* An exception arrives in the try block of a getter.
Retry ==
    /\ stack # <<>>
    /\ sig.k = "exc"
    /\ Top.pc = "fetch"
    /\ except_Exception(sig)

\* return self.get_...(retry - 1): the value of the inner call is handed on.
RetryReturn ==
    /\ stack # <<>>
    /\ sig.k = "ret"
    /\ Top.pc = "again"
    /\ stack' = Pop
    /\ UNCHANGED <<session, host, username, password, refresh_token, access_token,
                   sig, lastReq, call, lock, cmd, other>>

\* An exception passes through a frame that does not wait in a getter's try block.
GetterRaise ==
    /\ stack # <<>>
    /\ sig.k = "exc"
    /\ Top.pc # "fetch"
    /\ Propagate
    /\ UNCHANGED aux

GetterGetExchange ==
    /\ Sending("get_authenticated")
    /\ stack[1].fn # "get_all"
    /\ \E o \in GetterOutcomes(Top.ep) : Allowed(o) /\ get_authenticated(o)
    /\ UNCHANGED aux

GetAllExchange ==
    /\ Sending("get_authenticated")
    /\ stack[1].fn = "get_all"
    /\ \E o \in GetAllOutcomes(Top.ep) : Allowed(o) /\ get_authenticated(o)
    /\ UNCHANGED aux

GetterAuthorizeExchange ==
    /\ Sending("_authorize")
    /\ \E o \in GetterOutcomes(ENDPOINT_TOKEN) : _authorize(o)
    /\ UNCHANGED aux

NextGetter ==
    \/ Construct
    \/ InitReturn
    \/ CallGetStatus
    \/ CallGetAll
    \/ CallGetLocks
    \/ CallGetLocksStatus
    \/ CallGetLock
    \/ GetStatusReturn
    \/ GetAllReturn
    \/ GetLocksReturn
    \/ GetLocksStatusReturn
    \/ GetLockReturn
    \/ Retry
    \/ RetryReturn
    \/ GetterRaise
    \/ GetterGetExchange
    \/ GetAllExchange
    \/ GetterAuthorizeExchange
    \/ GetHandler
    \/ AuthorizeReturn
    \/ UpdateServices

SpecGetter == Init /\ [][NextGetter]_vars

---------------------------------------------------------------------------
(* Two callers of one session.  One of them runs; the other waits in       *)
(* other.  Between two steps of the running caller (each HTTP exchange is  *)
(* one step) the two may change places.                                    *)

\* The server of the two callers: it accepts every token request and
\* answers it with both tokens, it does not relocate, and it answers a data
\* request with a body or with 401.
SharedOutcomes(endpoint) ==
    IF endpoint = ENDPOINT_TOKEN
    THEN { Answer(200, Json({"access_token", "refresh_token"}, "", <<>>, a, r)) :
               a \in AccessTokens, r \in RefreshTokens }
    ELSE IF endpoint = ENDPOINT_SERVICES
    THEN { Answer(200, NullJson) }
    ELSE { Answer(200, Json({"code"}, "000", <<>>, "", "")), Answer(401, NullJson) }

\* The session is constructed once, before either caller uses it.
ConstructShared ==
    /\ session = "none"
    /\ Construct

SharedGetExchange ==
    /\ Sending("get_authenticated")
    /\ \E o \in SharedOutcomes(Top.ep) : Allowed(o) /\ get_authenticated(o)
    /\ UNCHANGED aux

SharedAuthorizeExchange ==
    /\ Sending("_authorize")
    /\ \E o \in SharedOutcomes(ENDPOINT_TOKEN) : _authorize(o)
    /\ UNCHANGED aux

\* The running caller and the waiting one change places.
Switch ==
    /\ session = "ready"
    /\ stack # <<>> \/ other.stack # <<>>
    /\ stack' = other.stack
    /\ sig' = other.sig
    /\ lastReq' = other.lastReq
    /\ call' = other.call
    /\ other' = Context(stack, sig, lastReq, call)
    /\ UNCHANGED <<session, host, username, password, refresh_token, access_token, lock, cmd>>

NextShared ==
    \/ ConstructShared
    \/ InitReturn
    \/ CallGet
    \/ SharedGetExchange
    \/ GetHandler
    \/ SharedAuthorizeExchange
    \/ AuthorizeReturn
    \/ UpdateServices
    \/ Raise
    \/ Switch

SpecShared == Init /\ [][NextShared]_vars

---------------------------------------------------------------------------
(* The claims.                                                             *)

\* The current call is an authenticated GET or POST.
InRequest == call.op \in {"get_authenticated", "post_authenticated"}

\* The current call has returned to, or raised into, its caller.
Done == Idle /\ sig.k # "none"

\* The first answer to the call's own request was 401 or 403.
FirstUnauthorized == Len(call.answers) > 0 /\ call.answers[1] = "auth"

\* C1: when an authenticated GET or POST receives 401/403, there is exactly
\* one re-authentication and the request is re-sent exactly once (no services
\* request being refused); if the retried request receives 401/403 too, the
\* call fails with ConnectionError.
C1_OneReauthOneRetry ==
    (InRequest /\ FirstUnauthorized /\ ~call.svcAuth) =>
        /\ call.nTok <= 1
        /\ call.nSend <= 2
        /\ (Done /\ Len(call.answers) = 2 /\ call.answers[2] = "auth")
               => sig = Exc("ConnectionError")

\* C2: when the first answer is 401/403, the re-authentication succeeds and
\* the retried request is answered 200, the call returns the parsed body of
\* the retried response.
C2_RetryReturnsBody ==
    (InRequest /\ Done /\ call.answers = <<"auth", "ok">> /\ ~call.svcAuth) =>
        sig = Ret(IF HasPanic(call.ep) THEN PanicJson ELSE call.lastOk)

\* C3: whatever the server answers, one call goes through at most one retry
\* cycle: at most one token request, one services request and one re-send
\* of the original request.
C3_OneRetryCycle ==
    InRequest => (call.nTok <= 1 /\ call.nSvc <= 1 /\ call.nSend <= 2)

\* C4: in every state of a constructed session the access token and the
\* refresh token are both present or both absent.
C4_TokensBothOrNeither ==
    session = "ready" => ((access_token = None) <=> (refresh_token = None))

\* The last request sent was a token request.
TokenRequested == lastReq.payload.grant_type # None

\* C5: the token request of a re-authentication uses grant_type=refresh_token
\* with the refresh token the session held when the 401/403 arrived, and
\* grant_type=password with username and password when it held none.
C5_ReauthGrant ==
    (InRequest /\ TokenRequested) =>
        IF call.held # None
        THEN lastReq.payload = [grant_type |-> "refresh_token", refresh_token |-> call.held,
                                username |-> None, password |-> None]
        ELSE lastReq.payload = [grant_type |-> "password", refresh_token |-> None,
                                username |-> username, password |-> password]

\* The token endpoint refused the last token request: it answered 401 or 403,
\* or 200 with a body holding neither token.
TokenRefused ==
    LET o == call.lastTok
    IN /\ o.raised = None
       /\ \/ o.status \in {401, 403}
          \/ o.status = 200 /\ o.body.keys \cap {"access_token", "refresh_token"} = {}

\* C6: authorization fails with AuthenticationError when the token endpoint
\* answers 401 or 403 or its response lacks both tokens; a constructor so
\* refused raises AuthenticationError and gives no session.
C6_RefusedAuthorizationFails ==
    (TokenRequested /\ TokenRefused) =>
        /\ sig = Exc("AuthenticationError")
        /\ call.op = "__init__" => session = (IF Idle THEN "none" ELSE "constructing")

\* C6, its case: the constructor was answered 403 by the token endpoint.
C6_Witness ==
    /\ Done
    /\ call.op = "__init__"
    /\ call.lastTok.status = 403
    /\ session = "none"
    /\ sig = Exc("AuthenticationError")

\* C7: an AuthenticationError raised by a re-authentication reaches the caller
\* as it is: until the call ends every step only leaves one frame, the error
\* stays the same, and no request (no re-send, no token request) is sent.
C7_AuthFailureEscalates ==
    [][ (stack # <<>> /\ sig = Exc("AuthenticationError")) =>
            /\ Len(stack') = Len(stack) - 1
            /\ sig' = sig
            /\ lastReq' = lastReq
            /\ call' = call ]_vars

\* C7, its case: a request was answered 401/403, its re-authentication failed
\* and the caller has the AuthenticationError after one send and one token request.
C7_Witness ==
    /\ Done
    /\ InRequest
    /\ FirstUnauthorized
    /\ sig = Exc("AuthenticationError")
    /\ call.nSend = 1
    /\ call.nTok = 1

\* The first answer to the call's own request was a failure other than 401/403.
FirstOtherFailure ==
    /\ Len(call.answers) > 0
    /\ call.answers[1] \in {"http", "raise"}

\* C8: a request that fails for another reason than 401/403 ends in the error
\* of its cause: TimeoutError for a timeout, ConnectionError for a connection
\* failure or another HTTP error status, UnknownError for any other error.
C8_ErrorNamesCause ==
    (InRequest /\ Done /\ FirstOtherFailure) =>
        sig = Exc(IF call.first.raised = None THEN "ConnectionError"
                  ELSE IF call.first.raised \in {"ConnectTimeout", "ReadTimeout"}
                       THEN "TimeoutError"
                  ELSE IF call.first.raised = "ConnectionError" THEN "ConnectionError"
                  ELSE "UnknownError")

\* C9: a request that fails for another reason than 401/403 sends no token
\* request and no retry and leaves both tokens and the base host as they were.
C9_OtherFailureChangesNothing ==
    (InRequest /\ FirstOtherFailure) =>
        /\ call.nTok = 0
        /\ call.nSvc = 0
        /\ call.nSend = 1
        /\ <<access_token, refresh_token>> = call.tokens0
        /\ host = call.host0
        /\ sig.k = "exc"

\* C9, its case: a GET of a session holding tokens was answered 500.
C9_Witness ==
    /\ Done
    /\ call.op = "get_authenticated"
    /\ call.first.status = 500
    /\ sig = Exc("ConnectionError")
    /\ access_token # None
    /\ refresh_token # None

\* C10: an authorization returns only after the services endpoint was queried
\* and answered; a non-empty relocation URL in the answer becomes the base
\* host with one trailing '/' removed, an empty or missing one leaves the base
\* host unchanged, nothing else moves the base host of a session, and every
\* request is sent to the base host held when it is sent.
C10_ServicesRelocation ==
    [][ /\ Resuming("_authorize") =>
               /\ lastReq.method = "GET"
               /\ lastReq.url[Len(lastReq.url)] = ENDPOINT_SERVICES
               /\ call.nSvc >= 1
        /\ Resuming("_update_services") =>
               LET u == call.lastSvc.yapi
               IN IF "yapi" \in call.lastSvc.keys /\ u # <<>>
                  THEN host' \o (IF u[Len(u)] = "/" THEN <<"/">> ELSE <<>>) = u
                  ELSE host' = host
        /\ (session' = session /\ ~Resuming("_update_services")) => host' = host
        /\ (stack # <<>> /\ sig.k = "none") =>
               LET url == lastReq'.url
                   endpoint == url[Len(url)]
               IN SubSeq(url, 1, Len(url) - 1) =
                      IF endpoint = _ENDPOINT_PANIC_BUTTON THEN DropLast(host, 5) ELSE host
      ]_vars

\* C10, its case: the services answer relocated the session to "N//", the
\* base host is "N/" and a later GET went there.
C10_Witness ==
    /\ host = <<"N", "/">>
    /\ call.op = "get_authenticated"
    /\ lastReq.method = "GET"
    /\ lastReq.url = <<"N", "/", _ENDPOINT_DEVICES_STATUS>>

\* The running frame is about to send an authenticated GET or POST.
SendingData ==
    /\ stack # <<>>
    /\ sig.k = "none"
    /\ Top.fn \in {"get_authenticated", "post_authenticated"}
    /\ Top.pc = "send"

\* C11 as stated: every authenticated GET or POST a constructed session
\* sends carries "Authorization: Bearer <token>" with a non-empty access token.
C11_BearerNonEmpty ==
    (InRequest /\ lastReq.auth[1] = "Bearer") => lastReq.auth[2] \in AccessTokens

\* C11: every authenticated GET or POST a session sends carries the access
\* token the session holds when it is sent, and the empty token when it
\* holds none (after a re-authentication that failed).
C11_BearerHeldToken ==
    [][ SendingData =>
            lastReq'.auth = <<"Bearer", IF access_token = None THEN "" ELSE access_token>>
      ]_vars

\* C11, its case: a GET of a session whose earlier re-authentication failed
\* went out with the empty token.
C11_Witness ==
    /\ call.op = "get_authenticated"
    /\ call.tokens0[1] = None
    /\ call.nSend = 1
    /\ lastReq.method = "GET"
    /\ lastReq.auth = <<"Bearer", "">>

\* A lock was built or updated from the record cmd.device in the last step.
Decoded == cmd.op \in {"YaleLock", "update"}

\* The record has a non-empty hexadecimal minigw_lock_status.
HasHexStatus(device) ==
    /\ "minigw_lock_status" \in device.keys
    /\ device.minigw_lock_status # <<>>
    /\ \A i \in 1..Len(device.minigw_lock_status) : HexDigit(device.minigw_lock_status[i]) >= 0

\* Bit 0 of a hexadecimal string is set when its last digit is odd, bit 4
\* when its last digit but one is.
OddDigit(s, back) == Len(s) > back /\ HexDigit(s[Len(s) - back]) % 2 = 1

\* C12: for every non-empty hexadecimal minigw_lock_status the decoder
\* returns LOCKED when bits 4 and 0 are set, UNLOCKED when bit 4 is set and
\* bit 0 clear, DOOR_OPEN when bit 4 is clear, whatever status1 is.
C12_BitsDecide ==
    (Decoded /\ HasHexStatus(cmd.device)) =>
        LET s == cmd.device.minigw_lock_status
        IN /\ sig.k = "ret"
           /\ lock.state = IF OddDigit(s, 1)
                           THEN (IF OddDigit(s, 0) THEN "LOCKED" ELSE "UNLOCKED")
                           ELSE "DOOR_OPEN"

\* C12, its case: the status "10" of a record whose status1 says locked
\* was decoded to UNLOCKED.
C12_Witness ==
    /\ Decoded
    /\ cmd.device.minigw_lock_status = <<"1", "0">>
    /\ cmd.device.status1 = LockMark
    /\ lock.state = "UNLOCKED"

\* The state the status1 fallback gives.
Fallback(status1) ==
    IF \E i \in 1..Len(status1) : SubSeq(status1, i, Min(i + 1, Len(status1))) = LockMark
    THEN "LOCKED"
    ELSE IF \E i \in 1..Len(status1) : SubSeq(status1, i, Min(i + 2, Len(status1))) = UnlockMark
    THEN "UNLOCKED"
    ELSE "UNKNOWN"

\* C13: for every record whose minigw_lock_status is empty, absent or not
\* hexadecimal the decoder returns the state status1 gives: LOCKED when it
\* contains "device_status.lock", else UNLOCKED when it contains
\* "device_status.unlock", else UNKNOWN.
C13_FallbackToStatus1 ==
    (Decoded /\ ~HasHexStatus(cmd.device)) =>
        /\ sig.k = "ret"
        /\ lock.state = Fallback(cmd.device.status1)

\* The record differs from device in every field the decoder does not read.
Elsewhere(device) ==
    [device EXCEPT !.name = "elsewhere", !.type = "device_type.keypad",
                   !.minigw_configuration_data = <<>>]

Reencoded ==
    /\ cmd.op = "to_string"
    /\ cmd.lock0.config = YaleLockConfig(cmd.lock0.device.minigw_configuration_data)

\* C15 as stated: for a configuration string of any length, re-parsing
\* what to_string gives reproduces the four fields.
C15_RoundTripAnyLength ==
    Reencoded => lock.config = cmd.lock0.config

\* C15: for a configuration string of at least ten characters (every
\* string of the full width is one), re-parsing what to_string gives
\* reproduces volume, autolock, language and armHoldTime.
C15_RoundTripFullFields ==
    (Reencoded /\ Len(cmd.lock0.device.minigw_configuration_data) >= 10) =>
        /\ lock.config.volume = cmd.lock0.config.volume
        /\ lock.config.autolock = cmd.lock0.config.autolock
        /\ lock.config.language = cmd.lock0.config.language
        /\ lock.config.arm_hold_time = cmd.lock0.config.arm_hold_time

\* C15, its case: a configuration of the full width, with an arm hold time,
\* was re-encoded.
C15_Witness ==
    /\ Reencoded
    /\ Len(cmd.lock0.device.minigw_configuration_data) = ConfWidth
    /\ cmd.lock0.config.arm_hold_time = <<"F", "0">>
    /\ lock.config.arm_hold_time = <<"F", "0">>

\* The call at hand is a command out of ops.
InCommand(ops) == cmd.op \in ops /\ call.op = "post_authenticated"

\* The command at hand has returned to, or raised into, its caller.
CommandDone(ops) == InCommand(ops) /\ Done

\* post_authenticated returned a response with this code to the command.
GotCode(code) ==
    /\ cmd.resp.k = "ret"
    /\ "code" \in cmd.resp.v.keys
    /\ cmd.resp.v.code = code

\* The command returned a bool.
ReturnedBool == sig \in {Ret(PyBool(TRUE)), Ret(PyBool(FALSE))}

\* C16: trigger_panic_button sends one authenticated POST and, when the POST
\* succeeded, does not fail: it returns True when the response code is the
\* success code and False otherwise.
C16_PanicReturnsBool ==
    (CommandDone({"trigger_panic_button"}) /\ call.answers = <<"ok">>) =>
        /\ call.nSend = 1
        /\ sig = Ret(PyBool(call.lastOk.code = "000"))

C18_LockFollowsCommand ==
    InCommand({"close_lock", "open_lock"}) =>
        IF Done /\ sig = Ret(PyBool(TRUE))
        THEN /\ lock.state = IF cmd.op = "close_lock" THEN "LOCKED" ELSE "UNLOCKED"
             /\ lock.name = cmd.lock0.name
             /\ lock.config = cmd.lock0.config
        ELSE /\ lock.state = cmd.lock0.state
             /\ lock.name = cmd.lock0.name
             /\ lock.config = cmd.lock0.config

\* C18, its case: close_lock on an UNLOCKED lock returned True and the lock
\* is LOCKED.
C18_Witness ==
    /\ CommandDone({"close_lock"})
    /\ sig = Ret(PyBool(TRUE))
    /\ cmd.lock0.state = "UNLOCKED"
    /\ lock.state = "LOCKED"

\* C19: when the configuration POST of set_volume or set_autolock is
\* answered with the success code, the call completes: it returns a bool (the
\* outcome of the device-update request) and the lock's volume or autolock
\* field holds the new value.
C19_ConfigChangeCompletes ==
    (CommandDone({"set_volume", "set_autolock"}) /\ GotCode("000")) =>
        /\ ReturnedBool
        /\ cmd.op = "set_volume" => lock.config.volume = cmd.value
        /\ cmd.op = "set_autolock" => lock.config.autolock = cmd.value

\* The waiting caller is inside a 401/403 handler that has cleared the
\* tokens and whose token request is not answered yet.
OtherClearing ==
    /\ other.stack # <<>>
    /\ other.sig.k = "none"
    /\ other.stack[Len(other.stack)].fn = "_authorize"
    /\ other.stack[Len(other.stack)].pc = "send"
    /\ HandlerDepth(other.stack) > 0

\* C20: two callers of one session are not safe on token refresh.  Where
\* every token request succeeds, one caller alone never sends an empty
\* bearer token; with two callers a request goes out with the empty token,
\* and it does so exactly while the other caller's 401 handling has cleared
\* the tokens and not yet stored new ones.
C20_EmptyBearerInRace ==
    [][ (SendingData /\ other' = other /\ lastReq'.auth = <<"Bearer", "">>) => OtherClearing
      ]_vars

\* C20, its case: the waiting caller's GET was answered 401 and its handler
\* cleared the tokens; the running caller's GET, its first request in a call
\* without re-authentication of its own, went out with the empty token.
C20_Witness ==
    /\ session = "ready"
    /\ OtherClearing
    /\ other.call.answers = <<"auth">>
    /\ other.call.tokens0[1] \in AccessTokens
    /\ other.call.nTok = 0
    /\ call.op = "get_authenticated"
    /\ call.nSend = 1
    /\ call.nTok = 0
    /\ lastReq.method = "GET"
    /\ lastReq.auth = <<"Bearer", "">>

\* The state a record stands for: the bits of a non-empty hexadecimal
\* minigw_lock_status, status1 in every other case.
RecordState(device) ==
    IF HasHexStatus(device)
    THEN IF ~OddDigit(device.minigw_lock_status, 1) THEN "DOOR_OPEN"
         ELSE IF OddDigit(device.minigw_lock_status, 0) THEN "LOCKED" ELSE "UNLOCKED"
    ELSE Fallback(device.status1)

\* C23: the state of a lock is the one set by the most recent of the
\* constructor, update, set_state, close_lock and open_lock: the state of the
\* record after the constructor or update(device), the given state after
\* set_state, LOCKED / UNLOCKED after a close_lock / open_lock that returned
\* True, and the state from before after a command that did not.
C23_StateFollowsLastOperation ==
    lock.exists =>
       /\ cmd.op \in {"YaleLock", "update"} => lock.state = RecordState(cmd.device)
       /\ cmd.op = "set_state" => lock.state = cmd.value
       /\ CommandDone({"close_lock"}) =>
             lock.state = IF sig = Ret(PyBool(TRUE)) THEN "LOCKED" ELSE cmd.lock0.state
       /\ CommandDone({"open_lock"}) =>
             lock.state = IF sig = Ret(PyBool(TRUE)) THEN "UNLOCKED" ELSE cmd.lock0.state

\* The configuration POST of the command did not give the success code: it
\* answered with another code or with none, or post_authenticated raised.
ConfigRefused == ~GotCode(CODE_SUCCESS)

\* C24: when set_volume / set_autolock has ended, then (a) if the
\* configuration POST did not give the success code, the last request sent
\* is not one to the device-update endpoint and the lock's configuration is
\* the one from before the call, and (b) if the call did not return True,
\* the lock's configuration is the one from before the call.
C24_ConfigOnlyOnSuccess ==
    CommandDone({"set_volume", "set_autolock"}) =>
       /\ ConfigRefused =>
             /\ lastReq.url # host \o <<_ENDPOINT_DEVICES_UPDATE>>
             /\ lock.config = cmd.lock0.config
       /\ sig # Ret(PyBool(TRUE)) => lock.config = cmd.lock0.config

\* The half of C24 about a refused configuration POST.
C24_RefusedLeavesConfig ==
    (CommandDone({"set_volume", "set_autolock"}) /\ ConfigRefused) =>
       /\ lastReq.url # host \o <<_ENDPOINT_DEVICES_UPDATE>>
       /\ lock.config = cmd.lock0.config

\* The getters that retry.
Retrying == {"get_status", "get_all", "get_locks", "get_locks_status"}

\* A getter among ops is running or was the last call.
InGetter(ops) == cmd.op \in ops /\ call.op = "get_authenticated"

\* The getter at hand has returned to, or raised into, its caller.
GetterDone(ops) == InGetter(ops) /\ Done

\* C21: a getter called with retry = n (a) never begins more than n + 1
\* attempts, (b) begins no attempt after one whose try block succeeded, (c)
\* when it returns, returns what came of the attempt that succeeded, and (d)
\* when it ends with an exception of an attempt, of whatever class, has made
\* n + 1 attempts and raises the exception of the last one as it was.
C21_RetryThenRaise ==
    InGetter(Retrying) =>
       /\ cmd.attempts <= cmd.retry + 1
       /\ cmd.resp.k = "ret" => \A i \in 1..Len(stack) : stack[i].pc = "again"
       /\ (Done /\ sig.k = "ret") =>
             /\ cmd.resp.k = "ret"
             /\ cmd.op = "get_locks" => sig = cmd.resp
             /\ cmd.op = "get_all" => sig.v.data = cmd.resp.v.data
             /\ cmd.op = "get_status" => sig.v.keys = {"str"}
             /\ cmd.op = "get_locks_status" => sig.v.keys = {"dict"}
       /\ (Done /\ sig.k = "exc" /\ cmd.resp.k = "exc") =>
             /\ cmd.attempts = cmd.retry + 1
             /\ sig = cmd.resp

\* A getter called with retries has used them all and ends with the
\* AuthenticationError of its last attempt.
C21_Witness ==
    /\ GetterDone(Retrying)
    /\ cmd.retry > 0
    /\ cmd.attempts = cmd.retry + 1
    /\ sig = Exc("AuthenticationError")

\* A getter has begun another attempt after an AuthenticationError.
C21_RetriedAuthenticationError ==
    /\ InGetter(Retrying)
    /\ stack # <<>>
    /\ cmd.attempts > 1
    /\ cmd.resp = Exc("AuthenticationError")

\* A getter has returned from an attempt that was not its first.
C21_ReturnedAfterRetry ==
    /\ GetterDone(Retrying)
    /\ sig.k = "ret"
    /\ cmd.attempts > 1

\* The panel status get_status was handed by its fetch.
FetchedPanel == cmd.resp.v.data.panel

\* All four fields of the panel status are "main.normal".
AllNormal(panel) ==
    \A field \in {"acfail", "battery", "tamper", "jam"} : panel[field] = "main.normal"

\* C25: when get_status has ended after a fetch that gave a panel status, it
\* has returned "ok" if acfail, battery, tamper and jam are all
\* "main.normal", and "error" for every other combination.
C25_OkIffAllNormal ==
    (GetterDone({"get_status"}) /\ cmd.resp.k = "ret" /\ "data" \in cmd.resp.v.keys) =>
        sig = IF AllNormal(FetchedPanel) THEN Ret(PyStr("ok")) ELSE Ret(PyStr("error"))

\* get_status has returned "ok".
C25_Witness ==
    /\ GetterDone({"get_status"})
    /\ sig = Ret(PyStr("ok"))
    /\ AllNormal(FetchedPanel)

\* get_status has returned "error" for a panel status of which jam alone
\* is not normal.
C25_JamAlone ==
    /\ GetterDone({"get_status"})
    /\ sig = Ret(PyStr("error"))
    /\ FetchedPanel = PanelStatus("main.normal", "main.normal", "main.normal", "main.fail")

\* The device records the getter was handed by its fetch.
FetchedDevices == cmd.resp.v.data.devices

\* The places of the door-lock records among the fetched ones.
DoorLocks == { i \in 1..Len(FetchedDevices) : FetchedDevices[i].type = DEVICE_TYPE }

\* The places of the door-lock records on which _calc_state raises.
Undecodable == { i \in DoorLocks : _calc_state(FetchedDevices[i]).raised # None }

\* The string constant with the name of a member of YaleLockState.
StateString(state) ==
    CASE state = "LOCKED" -> YALE_LOCK_STATE_LOCKED
      [] state = "UNLOCKED" -> YALE_LOCK_STATE_UNLOCKED
      [] state = "DOOR_OPEN" -> YALE_LOCK_STATE_DOOR_OPEN
      [] state = "UNKNOWN" -> YALE_LOCK_STATE_UNKNOWN

\* C22: when get_locks_status has ended after a fetch that gave device
\* records, then, if _calc_state raises on none of the door-lock records, it
\* has returned a dict with the names of the door-lock records, in which the
\* string under a name is the constant named like the member of YaleLockState
\* that _calc_state gives for the (last) record of that name; and if
\* _calc_state raises on one of them, it has raised what _calc_state raises on
\* the first such record.
C22_DecodersAgree ==
    (GetterDone({"get_locks_status"}) /\ cmd.resp.k = "ret" /\ "data" \in cmd.resp.v.keys) =>
        IF Undecodable = {}
        THEN /\ sig.k = "ret"
             /\ DOMAIN sig.v.data.dict = { FetchedDevices[i].name : i \in DoorLocks }
             /\ \A i \in DoorLocks :
                   (\A j \in DoorLocks : j > i => FetchedDevices[j].name # FetchedDevices[i].name)
                   => sig.v.data.dict[FetchedDevices[i].name]
                        = StateString(_calc_state(FetchedDevices[i]).state)
        ELSE LET first == CHOOSE i \in Undecodable : \A j \in Undecodable : i <= j
             IN sig = Exc(_calc_state(FetchedDevices[first]).raised)

\* get_locks_status has returned the string for DOOR_OPEN for a door lock.
C22_Witness ==
    /\ GetterDone({"get_locks_status"})
    /\ sig.k = "ret"
    /\ \E i \in DoorLocks :
          /\ _calc_state(FetchedDevices[i]).state = "DOOR_OPEN"
          /\ sig.v.data.dict[FetchedDevices[i].name] = YALE_LOCK_STATE_DOOR_OPEN

\* get_locks_status has raised on a door-lock record _calc_state raises on.
C22_BothRaise ==
    /\ GetterDone({"get_locks_status"})
    /\ cmd.resp.k = "ret"
    /\ sig = Exc("ValueError")
    /\ Undecodable # {}

\* The places of the door-lock records with the name get was asked for.
Named == { i \in DoorLocks : FetchedDevices[i].name = cmd.value }

\* The first of a non-empty set of places.
First(places) == CHOOSE i \in places : \A j \in places : i <= j

\* What get is to return: the lock of the first door-lock record with the
\* name, None when there is none.
Sought ==
    IF Named = {} THEN Ret(PyObject("None"))
    ELSE Ret(PyLock(FetchedDevices[First(Named)]))

\* C26: when get(name) has ended after a fetch that gave device records, it
\* has returned the lock of the first record, in the order of the response,
\* whose type is device_type.door_lock and whose name is name, and None when
\* no door-lock record has that name.
C26_FirstDoorLockOfName ==
    (GetterDone({"get"}) /\ cmd.resp.k = "ret" /\ "data" \in cmd.resp.v.keys) => sig = Sought

\* C26 where _calc_state raises on no door-lock record that comes before the
\* one get is to return (on none at all when it is to return None).
C26_WhereDecodable ==
    (/\ GetterDone({"get"}) /\ cmd.resp.k = "ret" /\ "data" \in cmd.resp.v.keys
     /\ \A i \in Undecodable : Named # {} /\ i > First(Named))
    => sig = Sought

\* get has returned the second of two records, the first being of another
\* device type and of the same name.
C26_SkippedOtherType ==
    /\ GetterDone({"get"})
    /\ Len(FetchedDevices) = 2
    /\ FetchedDevices[1].type # DEVICE_TYPE
    /\ FetchedDevices[1].name = cmd.value
    /\ sig = Ret(PyLock(FetchedDevices[2]))

====
